---- MODULE Spec2Model ----
(***************************************************************************)
(* Model of the record store of app.py ("Controle de Atos - Cartorio"):    *)
(* the SQLite table `atos`, the four store operations init_db, add_ato,    *)
(* get_atos and delete_ato, and the form handler that calls add_ato.       *)
(*                                                                         *)
(* Encoding of values                                                      *)
(*   - Python None / SQL NULL is the empty set, a present value x is {x}.  *)
(*   - a text (nome_ato, search) is a sequence of characters; the          *)
(*     characters are the tokens of Chars ("Ccedil"/"ccedil" stand for the *)
(*     non-ASCII letter pair U+00C7 / U+00E7).                             *)
(*   - the text handed in as data_ocorrido is a record [k, d]: k = "iso"   *)
(*     is the ISO-8601 text of calendar day d, k = "bad" a text that is no *)
(*     date.                                                               *)
(*   - criado_em holds "utcnow", the time of the insert: the model does    *)
(*     not tell one instant from another.                                  *)
(***************************************************************************)
EXTENDS Integers, Sequences, FiniteSets, TLC

VARIABLES
    cols,      \* columns of table atos in the store file; {} = no table yet
    table,     \* rows of atos: id -> [nome_ato, valor, data_ocorrido, descricao,
               \* criado_em]
    seq,       \* sqlite_sequence.seq of atos (AUTOINCREMENT high-water mark)
    conn,      \* state of the connection the last operation opened
    op,        \* the last operation ("start" before the first init_db)
    arg,       \* its arguments
    ret,       \* how it ended: "None", "DataFrame", the exception raised, or
               \* for the form handler "warning" / "rerun"
    out,       \* the rows of the DataFrame returned by the last get_atos
    pre,       \* history: table before the last operation
    precols,   \* history: cols before the last operation
    created    \* history: every id ever assigned, in order of creation

vars == <<cols, table, seq, conn, op, arg, ret, out, pre, precols, created>>

\* Highest id the model lets the store assign.
MaxId == 3

None == {}
Some(x) == {x}
Val(o) == CHOOSE x \in o : TRUE

---------------------------------------------------------------------------
(* Schema *)

BaseCols == {"id", "nome_ato", "valor", "criado_em"}
OptionalCols == {"data_ocorrido", "descricao"}
\* CREATE TABLE IF NOT EXISTS atos (...)
FullCols == BaseCols \cup OptionalCols

\* CREATE TABLE IF NOT EXISTS: only creates when there is no table.
CreateTableIfNotExists(c) == IF c = {} THEN FullCols ELSE c

\* init_db's column probe: PRAGMA table_info + conditional ALTER TABLE.
MigrateCols(c) ==
    IF "data_ocorrido" \notin c THEN c \cup {"data_ocorrido"} ELSE c

---------------------------------------------------------------------------
(* Texts and dates *)

Chars == {"A", "a", "B", "b", "U", "u", " ", "%", "_", "Ccedil", "ccedil"}

\* str.strip(): the text without its leading and trailing blanks.
RECURSIVE LStrip(_)
LStrip(s) == IF s # <<>> /\ Head(s) = " " THEN LStrip(Tail(s)) ELSE s
RECURSIVE RStrip(_)
RStrip(s) ==
    IF s # <<>> /\ s[Len(s)] = " " THEN RStrip(SubSeq(s, 1, Len(s) - 1)) ELSE s
Strip(s) == RStrip(LStrip(s))

IsoText(d) == [k |-> "iso", d |-> d]
BadText == [k |-> "bad", d |-> 0]

\* SQLite date(X): the calendar day of an ISO text, NULL for NULL and for a
\* text that is no date.
SqlDate(o) ==
    IF o = None THEN None
    ELSE IF Val(o).k = "iso" THEN Some(Val(o).d) ELSE None

\* pd.to_datetime(col, errors='coerce').dt.date: the date, or NaT (None).
PdDate(o) ==
    IF o = None THEN None
    ELSE IF Val(o).k = "iso" THEN Some(Val(o).d) ELSE None

\* SQL three-valued comparison: "T", "F", or "N" (NULL) when a side is NULL.
SqlGeNullTrue(a, b) ==
    IF a = None \/ b = None THEN "T"
    ELSE IF Val(a) >= Val(b) THEN "T" ELSE "F"
SqlGe(a, b) ==
    IF a = None \/ b = None THEN "N"
    ELSE IF Val(a) >= Val(b) THEN "T" ELSE "F"
SqlLe(a, b) == SqlGe(b, a)

\* SQLite's built-in LIKE folds case for ASCII letters only.
AsciiFold(c) ==
    IF c = "a" THEN "A" ELSE IF c = "b" THEN "B" ELSE IF c = "u" THEN "U" ELSE c

\* SQLite LIKE without ESCAPE: '%' matches any run, '_' any one character.
RECURSIVE Like(_, _)
Like(p, s) ==
    IF p = <<>> THEN s = <<>>
    ELSE IF Head(p) = "%"
         THEN Like(Tail(p), s) \/ (s # <<>> /\ Like(p, Tail(s)))
    ELSE IF Head(p) = "_"
         THEN s # <<>> /\ Like(Tail(p), Tail(s))
    ELSE s # <<>> /\ AsciiFold(Head(p)) = AsciiFold(Head(s))
                  /\ Like(Tail(p), Tail(s))

\* f"%{search}%"
LikeParam(s) == <<"%">> \o s \o <<"%">>

\* Python truthiness of the search argument: None and "" are falsy.
Truthy(o) == o # None /\ Val(o) # <<>>
\* Python truthiness of a date bound: only None is falsy.
TruthyDate(o) == o # None

---------------------------------------------------------------------------
(* Rows *)

Max(S) == CHOOSE m \in S : \A x \in S : x <= m

\* rowid of an INSERT into an INTEGER PRIMARY KEY AUTOINCREMENT table: one
\* more than the largest rowid that ever existed (sqlite_sequence).
NextRowidNoAuto(t, s) == IF DOMAIN t = {} THEN 1 ELSE Max(DOMAIN t) + 1
NextRowid(t, s) == Max({s} \cup DOMAIN t) + 1

\* The row INSERT INTO atos (nome_ato, valor, data_ocorrido, descricao,
\* criado_em) VALUES (?, ?, ?, ?, ?) stores.
InsertedRowNoDesc(n, v, d, ds) ==
    [nome_ato |-> Val(n), valor |-> v, data_ocorrido |-> d,
     descricao |-> Some(<<>>), criado_em |-> "utcnow"]
InsertedRow(n, v, d, ds) ==
    [nome_ato |-> Val(n), valor |-> v, data_ocorrido |-> d,
     descricao |-> Some(ds), criado_em |-> "utcnow"]

\* DELETE FROM atos WHERE id = ?
DeleteRowsUpTo(t, id) == [i \in {j \in DOMAIN t : j > id} |-> t[i]]
DeleteRows(t, id) == [i \in DOMAIN t \ {id} |-> t[i]]

\* WHERE clause of get_atos: the conditions appended for the truthy
\* arguments, joined by AND; a row is selected when the clause is true.
Selected(r, start, end, search) ==
    /\ TruthyDate(start) => SqlGe(SqlDate(r.data_ocorrido), SqlDate(start)) = "T"
    /\ TruthyDate(end) => SqlLe(SqlDate(r.data_ocorrido), SqlDate(end)) = "T"
    /\ Truthy(search) => Like(LikeParam(Val(search)), r.nome_ato)

\* ORDER BY date(data_ocorrido) DESC, id DESC: row i comes before row j.
\* NULL sorts below every value, so last under DESC.
BeforeIdAsc(t, i, j) ==
    LET a == SqlDate(t[i].data_ocorrido)
        b == SqlDate(t[j].data_ocorrido)
    IN  IF a = b THEN i < j
        ELSE IF b = None THEN TRUE
        ELSE IF a = None THEN FALSE
        ELSE Val(a) > Val(b)
Before(t, i, j) ==
    LET a == SqlDate(t[i].data_ocorrido)
        b == SqlDate(t[j].data_ocorrido)
    IN  IF a = b THEN i > j
        ELSE IF b = None THEN TRUE
        ELSE IF a = None THEN FALSE
        ELSE Val(a) > Val(b)

RECURSIVE Ordered(_, _)
Ordered(t, ids) ==
    IF ids = {} THEN <<>>
    ELSE LET first == CHOOSE i \in ids : \A j \in ids \ {i} : Before(t, i, j)
         IN  <<first>> \o Ordered(t, ids \ {first})

\* One fetched sqlite3.Row of SELECT *: the values in column order.
FetchedRow(t, i) ==
    <<i, t[i].nome_ato, t[i].valor, t[i].data_ocorrido, t[i].descricao,
      t[i].criado_em>>

\* Column labels of pd.DataFrame(rows): a sqlite3.Row is neither a tuple nor
\* a Mapping, so pandas reads it as a plain sequence of values and labels
\* the columns by position.
FrameLabels == {"0", "1", "2", "3", "4", "5"}

\* One row of the DataFrame get_atos returns: the fetched values, the date
\* column converted when the frame has a column labelled data_ocorrido.
FrameRow(r) ==
    IF "data_ocorrido" \in FrameLabels
    THEN [r EXCEPT ![4] = PdDate(r[4])]
    ELSE r

\* The rows get_atos(start_date, end_date, search) returns on table t.
GetAtos(t, start, end, search) ==
    LET ids == {i \in DOMAIN t : Selected(t[i], start, end, search)}
        order == Ordered(t, ids)
    IN  [k \in 1..Len(order) |-> FrameRow(FetchedRow(t, order[k]))]

---------------------------------------------------------------------------
(* Inputs *)

NoArg == [nome |-> None, valor |-> 0, data |-> None, desc |-> <<>>,
          id |-> 0, start |-> None, end |-> None, search |-> None]

AddArg(n, v, d, ds) == [NoArg EXCEPT !.nome = n, !.valor = v, !.data = d, !.desc = ds]

\* Arguments add_ato is called with: two valid ones that differ in every
\* field, an empty name with a text that is no date, a negative amount with
\* no date, and a None name (which the NOT NULL constraint rejects).
AddInputs ==
    { AddArg(Some(<<"A", "b">>), 150, Some(IsoText(2)), <<"u">>),
      AddArg(Some(<<"Ccedil">>), 0, Some(IsoText(1)), <<>>),
      AddArg(Some(<<>>), 150, Some(BadText), <<>>),
      AddArg(Some(<<"A", "b">>), -1, None, <<"u">>),
      AddArg(None, 150, Some(IsoText(2)), <<>>) }

\* What the form's widgets hand to the submit handler: any text as name and
\* description, an amount of at least min_value = 0.00, a date.
FormInputs ==
    { AddArg(Some(<<" ">>), 150, Some(IsoText(2)), <<"u">>),
      AddArg(Some(<<>>), 0, Some(IsoText(1)), <<>>),
      AddArg(Some(<<" ", "A", "b">>), 150, Some(IsoText(2)), <<"u", " ">>) }

DateBounds == {None, Some(IsoText(1)), Some(IsoText(2))}
Searches == {None, Some(<<>>), Some(<<"a">>), Some(<<"%">>), Some(<<"ccedil">>)}
DeleteIds == 1..MaxId

\* A row written by an earlier version of the program into a table that has
\* the columns c: a column the table lacks holds no value.
LegacyRow(c) ==
    [nome_ato |-> <<"A", "b">>, valor |-> 150,
     data_ocorrido |-> IF "data_ocorrido" \in c THEN Some(IsoText(1)) ELSE None,
     descricao |-> IF "descricao" \in c THEN Some(<<"u">>) ELSE None,
     criado_em |-> "earlier"]

---------------------------------------------------------------------------
(* The store file the program finds when it starts. Under Init: no file,  *)
(* or a file this version wrote, holding no row or one row. Under          *)
(* InitLegacy also a file written by an earlier version, whose table lacks *)
(* some of the optional columns.                                           *)

StartsWith(c, n) ==
    /\ cols = c
    /\ table = [i \in 1..n |-> LegacyRow(c)]
    /\ seq = n
    /\ conn = "closed"
    /\ op = "start"
    /\ arg = NoArg
    /\ ret = "None"
    /\ out = <<>>
    /\ pre = table
    /\ precols = cols
    /\ created = [i \in 1..n |-> i]

Init ==
    \/ StartsWith({}, 0)
    \/ \E n \in {0, 1} : StartsWith(FullCols, n)

InitLegacy ==
    \/ StartsWith({}, 0)
    \/ \E missing \in SUBSET OptionalCols, n \in {0, 1} :
           StartsWith(FullCols \ missing, n)

---------------------------------------------------------------------------
(* Operations *)

\* init_db(), lines 17-36. Runs at the top of the script, before any other
\* store call of the same run.
init_db ==
    /\ cols' = MigrateCols(CreateTableIfNotExists(cols))
    /\ table' = table
    /\ seq' = seq
    /\ conn' = "closed"
    /\ op' = "init_db"
    /\ arg' = NoArg
    /\ ret' = "None"
    /\ out' = <<>>
    /\ pre' = table
    /\ precols' = cols
    /\ created' = created

\* How the INSERT of add_ato ends. c.execute raises when the table lacks a
\* named column (OperationalError) or a NOT NULL column gets None
\* (IntegrityError).
InsertOutcome(c, a) ==
    IF ~({"data_ocorrido", "descricao"} \subseteq c) THEN "OperationalError"
    ELSE IF a.nome = None THEN "IntegrityError"
    ELSE "None"

\* Body of add_ato, lines 40-47: connect, INSERT, commit, close. An
\* exception of c.execute leaves the function before conn.commit() and
\* conn.close().
AddAtoBody(a) ==
    IF InsertOutcome(cols, a) # "None"
    THEN /\ conn' = "open"
         /\ UNCHANGED <<table, seq, created>>
    ELSE LET id == NextRowid(table, seq)
         IN  /\ table' = [i \in DOMAIN table \cup {id} |->
                            IF i = id
                            THEN InsertedRow(a.nome, a.valor, a.data, a.desc)
                            ELSE table[i]]
             /\ seq' = id
             /\ created' = Append(created, id)
             /\ conn' = "closed"

\* add_ato(nome_ato, valor, data_ocorrido, descricao), lines 39-47.
add_ato(a) ==
    /\ op # "start"
    /\ NextRowid(table, seq) <= MaxId
    /\ op' = "add_ato"
    /\ arg' = a
    /\ out' = <<>>
    /\ pre' = table
    /\ precols' = cols
    /\ cols' = cols
    /\ ret' = InsertOutcome(cols, a)
    /\ AddAtoBody(a)

\* The form's submit handler, lines 150-156: a name that is blank after
\* strip() gets a warning and no store call; otherwise add_ato is called
\* with the stripped texts and the script reruns.
form_submit(f) ==
    /\ op # "start"
    /\ NextRowid(table, seq) <= MaxId
    /\ op' = "form_submit"
    /\ arg' = f
    /\ out' = <<>>
    /\ pre' = table
    /\ precols' = cols
    /\ cols' = cols
    /\ IF Strip(Val(f.nome)) = <<>>
       THEN /\ ret' = "warning"
            /\ UNCHANGED <<table, seq, created, conn>>
       ELSE LET a == AddArg(Some(Strip(Val(f.nome))), f.valor, f.data, Strip(f.desc))
            IN  /\ ret' = IF InsertOutcome(cols, a) = "None" THEN "rerun"
                          ELSE InsertOutcome(cols, a)
                /\ AddAtoBody(a)

\* get_atos(start_date, end_date, search), lines 50-77. The ORDER BY names
\* data_ocorrido, so the statement raises on a table without that column.
get_atos(start, end, search) ==
    /\ op # "start"
    /\ op' = "get_atos"
    /\ arg' = [NoArg EXCEPT !.start = start, !.end = end, !.search = search]
    /\ pre' = table
    /\ precols' = cols
    /\ UNCHANGED <<cols, table, seq, created>>
    /\ IF "data_ocorrido" \notin cols
       THEN /\ ret' = "OperationalError"
            /\ conn' = "open"
            /\ out' = <<>>
       ELSE /\ ret' = "DataFrame"
            /\ conn' = "closed"
            /\ out' = GetAtos(table, start, end, search)

\* delete_ato(ato_id), lines 80-85. The function has no return statement.
delete_ato(id) ==
    /\ op # "start"
    /\ op' = "delete_ato"
    /\ arg' = [NoArg EXCEPT !.id = id]
    /\ out' = <<>>
    /\ pre' = table
    /\ precols' = cols
    /\ table' = DeleteRows(table, id)
    /\ ret' = "None"
    /\ conn' = "closed"
    /\ UNCHANGED <<cols, seq, created>>

AddAto == \E a \in AddInputs : add_ato(a)
FormSubmit == \E f \in FormInputs : form_submit(f)
GetAtosCall ==
    \E start \in DateBounds, end \in DateBounds, search \in Searches :
        get_atos(start, end, search)
DeleteAto == \E id \in DeleteIds : delete_ato(id)

Next == init_db \/ AddAto \/ FormSubmit \/ GetAtosCall \/ DeleteAto

Spec == Init /\ [][Next]_vars
SpecLegacy == InitLegacy /\ [][Next]_vars

---------------------------------------------------------------------------
(* Vocabulary of the properties *)

RowsOf(sq) == {sq[k] : k \in 1..Len(sq)}
\* Columns of a returned row, in the order of the table's columns.
IdOf(r) == r[1]
NameOf(r) == r[2]
AmountOf(r) == r[3]
DateOf(r) == r[4]
DescriptionOf(r) == r[5]
IdsOf(sq) == {IdOf(sq[k]) : k \in 1..Len(sq)}

\* The calendar day a stored or returned date value stands for; None when it
\* is missing or no date.
DayOf(o) == IF o # None /\ Val(o).k = "iso" THEN Some(Val(o).d) ELSE None
Listing(t) == GetAtos(t, None, None, None)

\* A name, an amount and a date that the contract calls valid.
ValidCreate(a) ==
    /\ a.nome # None /\ Val(a.nome) # <<>>
    /\ a.valor >= 0
    /\ a.data # None /\ Val(a.data).k = "iso"

\* The ids assigned before the latest one.
CreatedEarlier == {created[k] : k \in 1..(Len(created) - 1)}

\* occurred_on is a parseable date within [start, end], an absent bound
\* imposing no constraint.
WithinBounds(o, start, end) ==
    /\ o # None /\ Val(o).k = "iso"
    /\ start # None => Val(o).d >= Val(start).d
    /\ end # None => Val(o).d <= Val(end).d

\* Case folding of the whole alphabet, non-ASCII letters included.
FullFold(c) == IF c = "ccedil" THEN "Ccedil" ELSE AsciiFold(c)

\* name contains s as a literal substring, compared case-insensitively.
ContainsIgnoringCase(name, s) ==
    \E i \in 0..(Len(name) - Len(s)) :
        \A j \in 1..Len(s) : FullFold(name[i + j]) = FullFold(s[j])

\* Date x is not below date y, a missing date being below every date.
NotBelow(x, y) == y = None \/ (x # None /\ Val(x) >= Val(y))

---------------------------------------------------------------------------
(* Properties *)

C2_IdsNeverReused ==
    /\ \A i, j \in 1..Len(created) : i < j => created[i] < created[j]
    /\ DOMAIN table \subseteq {created[k] : k \in 1..Len(created)}
    /\ (op = "add_ato" /\ ret = "None") =>
           /\ created[Len(created)] \in DOMAIN table \ DOMAIN pre
           /\ created[Len(created)] \notin CreatedEarlier

\* C2 witness: a create that returned on a table that had become empty after
\* earlier records, the highest id among them, were deleted.
C2_Witness ==
    /\ op = "add_ato" /\ ret = "None"
    /\ DOMAIN pre = {}
    /\ Len(created) >= 3

\* C3: after delete(id) no record has that id, and delete returns "removed"
\* when the id existed and "nothing removed" when it did not.
C3_DeleteReportsRemoval ==
    op = "delete_ato" =>
        /\ arg.id \notin DOMAIN table
        /\ ret = IF arg.id \in DOMAIN pre THEN "removed" ELSE "nothing removed"

\* C4: a listing with a start and/or an end date does not fail, returns only
\* records whose date is parseable and within the bounds (both inclusive),
\* and, when no search is given, returns every such record.
C4_DateRange ==
    (op = "get_atos" /\ (arg.start # None \/ arg.end # None)) =>
        LET within == {i \in DOMAIN table :
                         WithinBounds(table[i].data_ocorrido, arg.start, arg.end)}
        IN  /\ ret = "DataFrame"
            /\ IdsOf(out) \subseteq within
            /\ Cardinality(IdsOf(out)) = Len(out)
            /\ ~Truthy(arg.search) => IdsOf(out) = within

\* C4 witness: a listing bounded on both sides that returns a record while
\* the table also holds a record with no date and one with a text that is no
\* date.
C4_Witness ==
    /\ op = "get_atos" /\ arg.start # None /\ arg.end # None
    /\ Len(out) >= 1
    /\ \E i \in DOMAIN table : table[i].data_ocorrido = None
    /\ \E i \in DOMAIN table : table[i].data_ocorrido = Some(BadText)

\* C5: a listing with a non-empty search returns only records whose name
\* contains the search text literally, ignoring case; with the search empty
\* or absent and no date bound it returns every record.
C5_SearchLiteral ==
    op = "get_atos" =>
        /\ Truthy(arg.search) =>
               \A k \in 1..Len(out) :
                   ContainsIgnoringCase(NameOf(out[k]), Val(arg.search))
        /\ (~Truthy(arg.search) /\ arg.start = None /\ arg.end = None) =>
               IdsOf(out) = DOMAIN table

\* C6: every listing is non-increasing by date, a missing or unparseable
\* date counting as the lowest, and records with equal dates are in
\* non-increasing id order.
C6_Ordering ==
    op = "get_atos" =>
        \A k \in 1..(Len(out) - 1) :
            /\ NotBelow(DayOf(DateOf(out[k])), DayOf(DateOf(out[k + 1])))
            /\ DayOf(DateOf(out[k])) = DayOf(DateOf(out[k + 1])) =>
                   IdOf(out[k]) >= IdOf(out[k + 1])

\* C6 witness: a listing of three records, a dated one followed by two
\* records without a usable date.
C6_Witness ==
    /\ op = "get_atos" /\ Len(out) = 3
    /\ DayOf(DateOf(out[1])) # None
    /\ DateOf(out[2]) = Some(BadText)
    /\ DateOf(out[3]) = None

\* C7: initialize leaves the table with the full column set and every row
\* that existed present with its values unchanged, and changes nothing on a
\* store that already has the full column set.
C7_InitFullColumns ==
    op = "init_db" =>
        /\ cols = FullCols
        /\ table = pre
        /\ precols = FullCols => cols = precols

\* C8: a create with an empty name or a negative amount fails with a
\* ValidationError and leaves the store with the records it had.
C8_InvalidCreateRejected ==
    (op = "add_ato" /\ arg.nome # None
        /\ (Val(arg.nome) = <<>> \/ arg.valor < 0)) =>
        /\ ret = "ValidationError"
        /\ table = pre

\* C9: when an operation has returned or failed, the connection it opened is
\* closed.
C9_ConnectionReleased == conn = "closed"

\* C10: delete raises no error, removes no record other than the one with
\* the given id, leaves every other record with its values, and leaves the
\* store as it was when no record has that id.
C10_DeleteFrame ==
    op = "delete_ato" =>
        /\ ret = "None"
        /\ DOMAIN table \subseteq DOMAIN pre
        /\ \A i \in DOMAIN pre \ {arg.id} : i \in DOMAIN table /\ table[i] = pre[i]
        /\ arg.id \notin DOMAIN pre => (table = pre /\ cols = precols)

\* C10 witness: a delete of an existing record from a table that keeps
\* another record.
C10_Witness ==
    /\ op = "delete_ato"
    /\ arg.id \in DOMAIN pre
    /\ DOMAIN table # {}

====
